---- MODULE Spec2Model ----
(***************************************************************************)
(* Model of the cross-filter dashboard engine of src/App.py: the browser   *)
(* script DASH_HTML (filters, applyFilters, aggregate, the builders, the   *)
(* click handlers) and the Python lines that hand it the page and the      *)
(* dataset.                                                                *)
(*                                                                         *)
(* JavaScript values are records tagged by t.  Text (cell strings, column  *)
(* names, group labels) is a sequence of one-character strings, so that    *)
(* String(v) and Number(v) are computed, not assumed.                      *)
(***************************************************************************)
EXTENDS Integers, Sequences, FiniteSets, TLC

VARIABLES
    RAW,       \* window.DASH_DATA: [columns, rows], read-only
    SPEC,      \* window.DASH_SPEC: the object Python serialised (active_page)
    filters,   \* let filters = {}: property name -> Set of strings
    data,      \* let data: the snapshot renderPage keeps
    dom,       \* the hosts #story, #filters, #kpis, #sections
    last,      \* the handler that ran last, what it was given, whether it threw
    ret,       \* result of a direct call of a pure helper
    session    \* st.session_state.spec and how far the Python script has run

vars == <<RAW, SPEC, filters, data, dom, last, ret, session>>

---------------------------------------------------------------------------
(* Bounds of the model *)

\* longest dataset (rows) the dashboard is started on
MaxRows == 2
\* longest row sequence a helper is called on directly
MaxCallRows == 3
\* longest row sequence toCSV is called on directly
MaxCsvRows == 2

---------------------------------------------------------------------------
(* JavaScript values *)

Undefined == [t |-> "undefined"]
Null == [t |-> "null"]
NaN == [t |-> "nan"]
PosInf == [t |-> "inf"]
NegInf == [t |-> "-inf"]
Num(n) == [t |-> "num", n |-> n]
Str(s) == [t |-> "str", s |-> s]
Bool(b) == [t |-> "bool", b |-> b]
\* a non-integer quotient p/q, reduced, q > 1
Frac(p, q) == [t |-> "frac", p |-> p, q |-> q]
\* a non-integer quotient of an integer from 2^53 up by a length q
BigFrac(p, q) == [t |-> "bigfrac", p |-> p, q |-> q]
\* an integer from 2^53 up, h * 2^53 + l with h >= 1 and l far below 2^53
\* (the integers of the model itself end at 2^31)
Big(h, l) == [t |-> "big", h |-> h, l |-> l]
\* an array of the page object
List(l) == [t |-> "list", l |-> l]

IsNum(v) == v.t \in {"num", "big"}
IsStr(v) == v.t = "str"
isNaN(v) == v.t = "nan"
\* v === null || v === undefined
IsNullish(v) == v.t \in {"null", "undefined"}

Digits == <<"0", "1", "2", "3", "4", "5", "6", "7", "8", "9">>
IsDigit(c) == \E d \in 1..10 : Digits[d] = c
DigitVal(c) == (CHOOSE d \in 1..10 : Digits[d] = c) - 1
\* StrWhiteSpaceChar of the characters the model uses
IsSpace(c) == c \in {" ", "\n", "\t", "\r"}

RECURSIVE NatToText(_)
NatToText(n) ==
    IF n < 10 THEN <<Digits[n + 1]>>
    ELSE NatToText(n \div 10) \o <<Digits[(n % 10) + 1]>>

IntToText(n) == IF n < 0 THEN <<"-">> \o NatToText(0 - n) ELSE NatToText(n)

\* the decimal digits of h * 2^53 + l, 2^53 being 9007199 * 10^9 + 254740992
\* (0 <= l, h <= 4: the low part stays below 2^31)
BigToText(h, l) ==
    LET low == h * 254740992 + l
        tail == NatToText(low % 1000000000)
    IN NatToText(h * 9007199 + low \div 1000000000)
       \o [i \in 1..(9 - Len(tail)) |-> "0"] \o tail

\* String(v), for the values a cell, a label or a key can hold
String(v) ==
    CASE v.t = "str" -> v.s
      [] v.t = "num" -> IntToText(v.n)
      [] v.t = "big" -> BigToText(v.h, v.l)
      [] v.t = "null" -> <<"n", "u", "l", "l">>
      [] v.t = "undefined" -> <<"u", "n", "d", "e", "f", "i", "n", "e", "d">>
      [] v.t = "bool" -> IF v.b THEN <<"t", "r", "u", "e">>
                         ELSE <<"f", "a", "l", "s", "e">>
      [] v.t = "nan" -> <<"N", "a", "N">>

RECURSIVE TrimLeft(_)
TrimLeft(s) ==
    IF s # <<>> /\ IsSpace(Head(s)) THEN TrimLeft(Tail(s)) ELSE s

RECURSIVE TrimRight(_)
TrimRight(s) ==
    IF s # <<>> /\ IsSpace(s[Len(s)]) THEN TrimRight(SubSeq(s, 1, Len(s) - 1))
    ELSE s

RECURSIVE DigitsToNat(_)
DigitsToNat(s) ==
    IF s = <<>> THEN 0
    ELSE 10 * DigitsToNat(SubSeq(s, 1, Len(s) - 1)) + DigitVal(s[Len(s)])

AllDigits(s) == s # <<>> /\ \A i \in 1..Len(s) : IsDigit(s[i])

\* StringToNumber on trimmed text: empty is 0, an optionally signed run of
\* decimal digits is its value, anything else the model uses is NaN
\* (no cell of the model holds ".", an exponent, a radix prefix or
\* "Infinity", which Number would also accept).
TextToNumber(s) ==
    LET u == TrimRight(TrimLeft(s)) IN
    IF u = <<>> THEN Num(0)
    ELSE IF AllDigits(u) THEN Num(DigitsToNat(u))
    ELSE IF Head(u) = "-" /\ AllDigits(Tail(u)) THEN Num(0 - DigitsToNat(Tail(u)))
    ELSE IF Head(u) = "+" /\ AllDigits(Tail(u)) THEN Num(DigitsToNat(Tail(u)))
    ELSE NaN

\* Number(v)
Number(v) ==
    CASE v.t = "num" -> v
      [] v.t = "big" -> v
      [] v.t = "null" -> Num(0)
      [] v.t = "undefined" -> NaN
      [] v.t = "bool" -> IF v.b THEN Num(1) ELSE Num(0)
      [] v.t = "str" -> TextToNumber(v.s)
      [] v.t = "nan" -> NaN

\* r[f]: a property the row does not have reads as undefined
Get(r, f) == IF f \in DOMAIN r THEN r[f] ELSE Undefined

\* F(x) with x evaluated once (a const of the script: computed, then used)
Const(x, F(_)) == CHOOSE r \in {F(v) : v \in {x}} : TRUE

---------------------------------------------------------------------------
(* Text: comparison by code unit, toLowerCase *)

\* the characters of the model in ascending UTF-16 code unit order
CharOrder ==
    <<"\t", "\n", "\r", " ", "\"", "+", ",", "-",
      "0", "1", "2", "3", "4", "5", "6", "7", "8", "9",
      "A", "B", "C", "D", "E", "F", "G", "H", "I", "J", "K", "L", "M",
      "N", "O", "P", "Q", "R", "S", "T", "U", "V", "W", "X", "Y", "Z",
      "a", "b", "c", "d", "e", "f", "g", "h", "i", "j", "k", "l", "m",
      "n", "o", "p", "q", "r", "s", "t", "u", "v", "w", "x", "y", "z">>
Code(c) == CHOOSE i \in 1..Len(CharOrder) : CharOrder[i] = c

UpperCase == <<"A", "B", "C", "D", "E", "F", "G", "H", "I", "J", "K", "L", "M",
               "N", "O", "P", "Q", "R", "S", "T", "U", "V", "W", "X", "Y", "Z">>
LowerCase == <<"a", "b", "c", "d", "e", "f", "g", "h", "i", "j", "k", "l", "m",
               "n", "o", "p", "q", "r", "s", "t", "u", "v", "w", "x", "y", "z">>
toLowerCase(s) ==
    [i \in 1..Len(s) |->
        IF \E j \in 1..Len(UpperCase) : UpperCase[j] = s[i]
        THEN LowerCase[CHOOSE j \in 1..Len(UpperCase) : UpperCase[j] = s[i]]
        ELSE s[i]]

\* a > b on strings
RECURSIVE TextGT(_, _)
TextGT(a, b) ==
    IF a = <<>> THEN FALSE
    ELSE IF b = <<>> THEN TRUE
    ELSE IF Head(a) = Head(b) THEN TextGT(Tail(a), Tail(b))
    ELSE Code(Head(a)) > Code(Head(b))

T_sum == <<"s", "u", "m">>
T_avg == <<"a", "v", "g">>
T_min == <<"m", "i", "n">>
T_max == <<"m", "a", "x">>
T_count == <<"c", "o", "u", "n", "t">>
T_distinct == <<"d", "i", "s", "t", "i", "n", "c", "t">>

\* v || dflt, for a string or a missing property
OrElse(v, dflt) == IF IsNullish(v) \/ v = Str(<<>>) THEN dflt ELSE v

---------------------------------------------------------------------------
(* applyFilters *)

\* JSON.parse(JSON.stringify(v)) of one cell
JsonCopy(v) ==
    CASE v.t = "num" -> Num(v.n)
      [] v.t = "str" -> Str(v.s)
      [] v.t = "bool" -> Bool(v.b)
      [] v.t = "null" -> Null

deepCopy(rows) ==
    [i \in 1..Len(rows) |-> [c \in DOMAIN rows[i] |-> JsonCopy(rows[i][c])]]

\* RowPasses with a null cell passing every filter
RowPassesNullWildcard(r, flt) ==
    \A f \in DOMAIN flt :
        LET v == Get(r, f) IN
        IF IsNullish(v) THEN TRUE ELSE String(v) \in flt[f]

RowPasses(r, flt) ==
    \A f \in DOMAIN flt :
        LET v == Get(r, f) IN
        IF IsNullish(v) THEN FALSE ELSE String(v) \in flt[f]

applyFilters(rows, flt) ==
    IF DOMAIN flt = {} THEN deepCopy(rows)
    ELSE SelectSeq(rows, LAMBDA r : RowPasses(r, flt))

---------------------------------------------------------------------------
(* aggregate *)

RECURSIVE Gcd(_, _)
Gcd(a, b) == IF b = 0 THEN a ELSE Gcd(b, a % b)
Abs(n) == IF n < 0 THEN 0 - n ELSE n

\* the two parts of an integer number: h * 2^53 + l
Hi(v) == IF v.t = "big" THEN v.h ELSE 0
Lo(v) == IF v.t = "big" THEN v.l ELSE v.n

RECURSIVE Pow2(_)
Pow2(e) == IF e = 0 THEN 1 ELSE 2 * Pow2(e - 1)
RECURSIVE Log2(_)
Log2(h) == IF h < 2 THEN 0 ELSE 1 + Log2(h \div 2)

\* the distance between neighbouring doubles around h * 2^53 + l, h >= 1:
\* 2 from 2^53, 4 from 2^54, ...; below a power of two it is half of that
Spacing(h, l) ==
    IF l < 0 /\ h = Pow2(Log2(h)) THEN Pow2(Log2(h)) ELSE Pow2(Log2(h) + 1)

\* the double nearest to the integer h * 2^53 + l, ties to the even
\* significand; every integer below 2^53 is a double
RoundDouble(h, l) ==
    IF h = 0 THEN Num(l)
    ELSE LET s == Spacing(h, l)
             q == l \div s
             r == l % s
         IN IF 2 * r < s \/ (2 * r = s /\ q % 2 = 0) THEN Big(h, q * s)
            ELSE Big(h, (q + 1) * s)

\* a + b on integer numbers
Plus(a, b) == RoundDouble(Hi(a) + Hi(b), Lo(a) + Lo(b))

\* a < b on integer numbers
Less(a, b) == Hi(a) < Hi(b) \/ (Hi(a) = Hi(b) /\ Lo(a) < Lo(b))

\* p / q for a sum p and a length q: 0/0 is NaN (no other division by zero
\* occurs); a quotient that is not an integer of the model is kept as the
\* fraction
Divide(p, q) ==
    IF q = 0 THEN NaN
    ELSE IF Hi(p) % q = 0 /\ Lo(p) % q = 0
    THEN (IF Hi(p) = 0 THEN Num(Lo(p) \div q) ELSE Big(Hi(p) \div q, Lo(p) \div q))
    ELSE IF Hi(p) = 0
    THEN LET g == Gcd(Abs(Lo(p)), q) IN Frac(Lo(p) \div g, q \div g)
    ELSE BigFrac(p, q)

\* arr.reduce((a,b)=>a+b,0): the additions from left to right
RECURSIVE SumSeq(_)
SumSeq(arr) ==
    IF arr = <<>> THEN Num(0)
    ELSE Plus(SumSeq(SubSeq(arr, 1, Len(arr) - 1)), arr[Len(arr)])

SeqRange(arr) == {arr[i] : i \in 1..Len(arr)}

\* Math.min(...arr), Math.max(...arr)
MathMin(arr) ==
    IF arr = <<>> THEN PosInf
    ELSE CHOOSE m \in SeqRange(arr) : \A n \in SeqRange(arr) : ~Less(n, m)
MathMax(arr) ==
    IF arr = <<>> THEN NegInf
    ELSE CHOOSE m \in SeqRange(arr) : \A n \in SeqRange(arr) : ~Less(m, n)

\* the if/else chain on the kind, over the numbers kept for one group
Reduce(agg, arr) ==
    IF agg = T_avg THEN Divide(SumSeq(arr), Len(arr))
    ELSE IF agg = T_min THEN MathMin(arr)
    ELSE IF agg = T_max THEN MathMax(arr)
    ELSE IF agg = T_count THEN Num(Len(arr))
    ELSE IF agg = T_distinct THEN Num(Cardinality(SeqRange(arr)))
    ELSE SumSeq(arr)

\* if(!isNaN(val)) groups[k].push(val)
KeepNumber(val) == ~isNaN(val)

\* the rows.forEach of aggregate: k and val of the row at i
KeyAt(rows, x, i) == String(Get(rows[i], String(x)))
ValAt(rows, y, i) == Number(Get(rows[i], String(y)))

\* the keys of groups in the order the loop created them
GroupKeys(rows, x) ==
    LET firsts == SelectSeq([i \in 1..Len(rows) |-> i],
                            LAMBDA i : \A j \in 1..(i - 1) :
                                          KeyAt(rows, x, j) # KeyAt(rows, x, i))
    IN [n \in 1..Len(firsts) |-> KeyAt(rows, x, firsts[n])]

\* groups[k]: the numbers the loop pushed for key k, in row order
GroupValues(rows, x, y, k) ==
    LET mine == SelectSeq([i \in 1..Len(rows) |-> i],
                          LAMBDA i : KeyAt(rows, x, i) = k
                                     /\ KeepNumber(ValAt(rows, y, i)))
    IN [n \in 1..Len(mine) |-> ValAt(rows, y, mine[n])]

\* an integer index key ("0", "7", "12"): Object.entries lists these first,
\* in ascending numeric order, before the other keys in creation order
IsIndexKey(k) == AllDigits(k) /\ (Len(k) = 1 \/ Head(k) # "0")

EntriesOrder(keys) ==
    LET idx == SelectSeq(keys, IsIndexKey)
        rest == SelectSeq(keys, LAMBDA k : ~IsIndexKey(k))
        asc == [i \in 1..Len(idx) |->
                   idx[CHOOSE j \in 1..Len(idx) :
                          Cardinality({m \in 1..Len(idx) :
                              DigitsToNat(idx[m]) < DigitsToNat(idx[j])}) = i - 1]]
    IN asc \o rest

\* the comparator of out.sort: (a,b) => (a.x > b.x ? 1 : -1)
Compare(a, b) == IF TextGT(a.x, b.x) THEN 1 ELSE 0 - 1

\* out.sort(cmp), the x of the entries being distinct: the entry at i is
\* the one that compares greater than i - 1 of the entries
SortOut(out) ==
    [i \in 1..Len(out) |->
        out[CHOOSE j \in 1..Len(out) :
               Cardinality({m \in 1..Len(out) : Compare(out[j], out[m]) > 0}) = i - 1]]

\* the body of aggregate on the rows it was handed: groups, out, out.sort
AggregateRows(rows, x, y, agg) ==
    LET kind == toLowerCase(OrElse(agg, Str(T_sum)).s)
        Entry(k) == [x |-> k,
                     y |-> Const(GroupValues(rows, x, y, k), LAMBDA arr : Reduce(kind, arr))]
        Out(order) == [i \in 1..Len(order) |-> Entry(order[i])]
    IN Const(Const(Const(GroupKeys(rows, x), EntriesOrder), Out), SortOut)

\* aggregate(rows, x, y, agg): x, y, agg are what the element holds (a
\* string or undefined)
aggregate(rows, x, y, agg) == Const(rows, LAMBDA rs : AggregateRows(rs, x, y, agg))

---------------------------------------------------------------------------
(* numberFormat and the builders *)

Billion == 1000000000
Million == 1000000
Thousand == 1000
\* rows.slice(0,100) of a Table element
TableCap == 100

T_NA == <<"N", "/", "A">>
T_Table == <<"T", "a", "b", "l", "e">>
T_Pie == <<"P", "i", "e">>
T_Bar == <<"B", "a", "r">>
T_Visuals == <<"V", "i", "s", "u", "a", "l", "s">>

\* floor of Math.abs(v) for a number aggregate produced
AbsFloor(v) == IF v.t = "num" THEN Abs(v.n) ELSE Abs(v.p) \div v.q

\* numberFormat(v): "N/A", or the number with the unit its magnitude picks
\* (the digits toFixed(2) and Intl.NumberFormat print are not modelled)
numberFormat(v) ==
    IF IsNullish(v) \/ isNaN(v) THEN Str(T_NA)
    ELSE IF v.t \in {"inf", "-inf", "big", "bigfrac"}
    THEN [t |-> "fmt", unit |-> "B", v |-> v]
    ELSE IF AbsFloor(v) >= Billion THEN [t |-> "fmt", unit |-> "B", v |-> v]
    ELSE IF AbsFloor(v) >= Million THEN [t |-> "fmt", unit |-> "M", v |-> v]
    ELSE IF AbsFloor(v) >= Thousand THEN [t |-> "fmt", unit |-> "K", v |-> v]
    ELSE [t |-> "fmt", unit |-> "", v |-> v]

\* the characters of a string between the quotes JSON.stringify writes:
\* the quote and the backslash get a backslash, a line break becomes \n
RECURSIVE JsonEscape(_)
JsonEscape(s) ==
    IF s = <<>> THEN <<>>
    ELSE (IF Head(s) = "\"" THEN <<"\\", "\"">>
          ELSE IF Head(s) = "\\" THEN <<"\\", "\\">>
          ELSE IF Head(s) = "\n" THEN <<"\\", "n">>
          ELSE <<Head(s)>>) \o JsonEscape(Tail(s))

\* JSON.stringify(r[c] ?? ""): text in quotes, a number or a boolean bare,
\* null and undefined as the empty text in quotes
JsonStringify(v) ==
    IF IsNullish(v) THEN <<"\"", "\"">>
    ELSE IF v.t = "str" THEN <<"\"">> \o JsonEscape(v.s) \o <<"\"">>
    ELSE String(v)

\* texts.join(sep)
RECURSIVE Join(_, _)
Join(texts, sep) ==
    IF texts = <<>> THEN <<>>
    ELSE IF Len(texts) = 1 THEN texts[1]
    ELSE texts[1] \o sep \o Join(Tail(texts), sep)

\* toCSV(rows): the column names joined by commas, a line break, and the
\* rows' stringified cells joined by commas and line breaks
toCSV(rows, columns) ==
    Join(columns, <<",">>) \o <<"\n">>
    \o Join([i \in 1..Len(rows) |->
                Join([j \in 1..Len(columns) |-> JsonStringify(Get(rows[i], columns[j]))],
                     <<",">>)],
            <<"\n">>)

\* list || []
OrEmpty(list) == IF IsNullish(list) THEN <<>> ELSE list.l

\* a forEach whose callback throws on a null entry: the entries handled
\* before the throw, and whether it threw
FirstBad(list, Bad(_)) ==
    IF \E i \in 1..Len(list) : Bad(list[i])
    THEN CHOOSE i \in 1..Len(list) :
            Bad(list[i]) /\ \A j \in 1..(i - 1) : ~Bad(list[j])
    ELSE Len(list) + 1

columnsIncludes(columns, f) == IsStr(f) /\ \E i \in 1..Len(columns) : columns[i] = f.s

\* buildStory(page): the host is emptied, then page.Story is read
buildStory(page) ==
    IF IsNullish(page) THEN [out |-> <<>>, threw |-> TRUE]
    ELSE
        LET list == OrEmpty(page.Story)
            n == FirstBad(list, IsNullish)
        IN [out |-> [i \in 1..(n - 1) |->
                        [section |-> OrElse(list[i].section, Str(<<>>)),
                         text |-> OrElse(list[i].text, Str(<<>>))]],
            threw |-> n <= Len(list)]

\* the if/else chain of buildKPIs on k.agg, which is not lower-cased
KpiReduce(agg, nums) ==
    IF agg = Str(T_avg) THEN Divide(SumSeq(nums), Len(nums))
    ELSE IF agg = Str(T_min) THEN MathMin(nums)
    ELSE IF agg = Str(T_max) THEN MathMax(nums)
    ELSE IF agg = Str(T_count) THEN Num(Len(nums))
    ELSE IF agg = Str(T_distinct) THEN Num(Cardinality(SeqRange(nums)))
    ELSE SumSeq(nums)

\* nums: rows.map(r => Number(r[field])).filter(v => !isNaN(v))
KpiNums(rows, field) ==
    LET kept == SelectSeq([i \in 1..Len(rows) |-> Number(Get(rows[i], field))],
                          KeepNumber)
    IN kept

\* the value a KPI card shows
KpiValue(k, rows, columns) ==
    IF ~columnsIncludes(columns, k.field) THEN Str(T_NA)
    ELSE Const(KpiNums(rows, k.field.s),
               LAMBDA nums : IF nums = <<>> THEN Str(T_NA)
                             ELSE numberFormat(KpiReduce(k.agg, nums)))

KpiCard(k, rows, columns) ==
    [title |-> OrElse(k.title, k.field), val |-> KpiValue(k, rows, columns)]

\* buildKPIs(page): const rows = applyFilters(), then one card per entry
buildKPIs(page, raw, flt) ==
    LET list == OrEmpty(page.KPIs)
        n == FirstBad(list, IsNullish)
    IN Const(applyFilters(raw.rows, flt),
             LAMBDA rows :
                 [out |-> [i \in 1..(n - 1) |-> KpiCard(list[i], rows, raw.columns)],
                  threw |-> n <= Len(list)])

\* the first TableCap rows
SliceCap(rows) == SubSeq(rows, 1, IF Len(rows) < TableCap THEN Len(rows) ELSE TableCap)

\* r[c] ?? "" as it is written into a cell
CellText(v) == IF IsNullish(v) THEN <<>> ELSE String(v)

\* the Table branch of an element, on its rows
TableVisual(el, rows, columns) ==
    LET cols == SelectSeq(<<el.x, el.y>>,
                          LAMBDA c : ~IsNullish(c) /\ c # Str(<<>>)
                                     /\ columnsIncludes(columns, c))
        shown == SliceCap(rows)
    IN [kind |-> "table",
        cols |-> [i \in 1..Len(cols) |-> cols[i].s],
        body |-> [i \in 1..Len(shown) |->
                     [j \in 1..Len(cols) |-> CellText(Get(shown[i], cols[j].s))]]]

\* the ECharts branch of an element, on its rows: the option it sets and
\* the x its click listener holds
ChartVisual(el, rows) ==
    Const(aggregate(rows, el.x, el.y, Str(toLowerCase(OrElse(el.agg, Str(T_sum)).s))),
          LAMBDA aggData :
              [kind |-> "chart",
               series |-> IF el.type = Str(T_Pie) THEN <<"p", "i", "e">>
                          ELSE toLowerCase(OrElse(el.type, Str(T_Bar)).s),
               x |-> el.x,
               names |-> [i \in 1..Len(aggData) |-> aggData[i].x],
               values |-> [i \in 1..Len(aggData) |-> aggData[i].y]])

\* one element of a section, with its own const rows = applyFilters()
Visual(el, raw, flt) ==
    Const(applyFilters(raw.rows, flt),
          LAMBDA rows : IF el.type = Str(T_Table)
                        THEN TableVisual(el, rows, raw.columns)
                        ELSE ChartVisual(el, rows))

\* a section the forEach cannot finish: it is null, or one of its elements is
BadSection(sec) ==
    IsNullish(sec) \/ \E i \in 1..Len(OrEmpty(sec.elements)) :
                          IsNullish(OrEmpty(sec.elements)[i])

\* buildSections(page): a section is appended to the host after its
\* elements were built, so the section that throws is not on display
buildSections(page, raw, flt) ==
    LET list == OrEmpty(page.Layout)
        n == FirstBad(list, BadSection)
    IN [out |-> [i \in 1..(n - 1) |->
                    [title |-> OrElse(list[i].section, Str(T_Visuals)),
                     elements |-> [j \in 1..Len(OrEmpty(list[i].elements)) |->
                                      Visual(OrEmpty(list[i].elements)[j], raw, flt)]]],
        threw |-> n <= Len(list)]

---------------------------------------------------------------------------
(* renderPage, buildFilters and the handlers' effect on filters *)

EmptyFilters == <<>>
EmptyDom == [story |-> <<>>, filters |-> <<>>, kpis |-> <<>>, sections |-> <<>>]
\* {} as a page: every property reads as undefined
EmptyPage ==
    [t |-> "obj", Story |-> Undefined, Filters |-> Undefined, KPIs |-> Undefined,
     Layout |-> Undefined, Pages |-> Undefined]

\* renderPage whose sections are computed from the whole dataset
renderPageWholeSections(page, raw, flt, d) ==
    LET s == buildStory(page)
        k == IF IsNullish(page) THEN buildStory(page) ELSE buildKPIs(page, raw, flt)
        c == IF IsNullish(page) THEN buildStory(page)
             ELSE buildSections(page, raw, EmptyFilters)
    IN IF s.threw
       THEN [data |-> applyFilters(raw.rows, flt), threw |-> TRUE,
             dom |-> [d EXCEPT !.story = s.out]]
       ELSE IF k.threw
       THEN [data |-> applyFilters(raw.rows, flt), threw |-> TRUE,
             dom |-> [d EXCEPT !.story = s.out, !.kpis = k.out]]
       ELSE [data |-> applyFilters(raw.rows, flt), threw |-> c.threw,
             dom |-> [d EXCEPT !.story = s.out, !.kpis = k.out, !.sections = c.out]]

\* renderPage(page): the snapshot, then the three builders that are called;
\* a builder that throws leaves the hosts after it as they were
renderPage(page, raw, flt, d) ==
    LET s == buildStory(page)
        k == IF IsNullish(page) THEN buildStory(page) ELSE buildKPIs(page, raw, flt)
        c == IF IsNullish(page) THEN buildStory(page) ELSE buildSections(page, raw, flt)
    IN IF s.threw
       THEN [data |-> applyFilters(raw.rows, flt), threw |-> TRUE,
             dom |-> [d EXCEPT !.story = s.out]]
       ELSE IF k.threw
       THEN [data |-> applyFilters(raw.rows, flt), threw |-> TRUE,
             dom |-> [d EXCEPT !.story = s.out, !.kpis = k.out]]
       ELSE [data |-> applyFilters(raw.rows, flt), threw |-> c.threw,
             dom |-> [d EXCEPT !.story = s.out, !.kpis = k.out, !.sections = c.out]]

\* Array.from(set).sort(): the text at i is greater than i - 1 of the texts
SortTexts(set) ==
    [i \in 1..Cardinality(set) |->
        CHOOSE t \in set : Cardinality({u \in set : TextGT(t, u)}) = i - 1]

\* uniqueValues(field): over the snapshot data
uniqueValues(rows, field) ==
    SortTexts({String(Get(rows[i], field.s)) :
                  i \in {j \in 1..Len(rows) : ~IsNullish(Get(rows[j], field.s))}})

\* buildFilters(page): one multi-select per declared filter whose field is
\* a column, its options taken from the snapshot
buildFilters(page, columns, rows) ==
    LET list == OrEmpty(page.Filters)
        n == FirstBad(list, IsNullish)
        ok == SelectSeq(SubSeq(list, 1, n - 1),
                        LAMBDA f : columnsIncludes(columns, f.field))
    IN [out |-> [i \in 1..Len(ok) |->
                    [field |-> ok[i].field.s,
                     options |-> uniqueValues(rows, ok[i].field)]],
        threw |-> n <= Len(list)]

\* delete filters[key]
DeleteKey(flt, key) ==
    IF DOMAIN flt \ {key} = {} THEN EmptyFilters
    ELSE [k \in DOMAIN flt \ {key} |-> flt[k]]

\* filters[key] = set
SetKey(flt, key, set) ==
    [k \in DOMAIN flt \cup {key} |-> IF k = key THEN set ELSE flt[k]]

\* ChangeFilter that stores an empty selection
ChangeFilterKeepEmpty(flt, field, picks) == SetKey(flt, field, picks)

\* ChangeFilter with the picks added to what the entry held
ChangeFilterMerge(flt, field, picks) ==
    IF picks # {}
    THEN SetKey(flt, field, picks \cup (IF field \in DOMAIN flt THEN flt[field] ELSE {}))
    ELSE DeleteKey(flt, field)

\* the change listener of a filter control, up to its renderPage
ChangeFilter(flt, field, picks) ==
    IF picks # {} THEN SetKey(flt, field, picks) ELSE DeleteKey(flt, field)

\* ToggleFilter without the delete of an emptied entry
ToggleFilterKeepEmpty(flt, x, name) ==
    LET key == String(x)
        label == String(name)
        f1 == IF key \in DOMAIN flt THEN flt ELSE SetKey(flt, key, {})
    IN IF label \in f1[key] THEN SetKey(f1, key, f1[key] \ {label})
       ELSE SetKey(f1, key, f1[key] \cup {label})

\* ToggleFilter that matches the label against the whole entry
ToggleFilterWholeEntry(flt, x, name) ==
    LET key == String(x)
        label == String(name)
    IN IF key \in DOMAIN flt /\ flt[key] = {label} THEN DeleteKey(flt, key)
       ELSE SetKey(flt, key, {label})

\* the click listener of a chart, up to its renderPage: x is the element's
\* x (a string or undefined), name is params.name (not null)
ToggleFilter(flt, x, name) ==
    LET key == String(x)
        label == String(name)
        f1 == IF key \in DOMAIN flt THEN flt ELSE SetKey(flt, key, {})
        f2 == IF label \in f1[key] THEN SetKey(f1, key, f1[key] \ {label})
              ELSE SetKey(f1, key, f1[key] \cup {label})
    IN IF f2[key] = {} THEN DeleteKey(f2, key) ELSE f2

---------------------------------------------------------------------------
(* The inputs: datasets and pages *)

Region == <<"R", "e", "g", "i", "o", "n">>
Sales == <<"S", "a", "l", "e", "s">>
Month == <<"M", "o", "n", "t", "h">>
Profit == <<"P", "r", "o", "f", "i", "t">>
East == <<"E", "a", "s", "t">>
West == <<"W", "e", "s", "t">>
T_null == <<"n", "u", "l", "l">>

Columns == <<Region, Sales>>
Row(region, sales) == [c \in {Region, Sales} |-> IF c = Region THEN region ELSE sales]

\* the row sequences of length at most n over a set of rows
SeqsUpTo(S, n) == UNION {[1..k -> S] : k \in 0..n}

\* to_js_rows: NaN became null, the other cells are numbers and strings
DashRows ==
    {Row(Str(East), Num(100)), Row(Str(West), Num(50)),
     Row(Null, Num(100)), Row(Str(East), Null)}
DashData == {[columns |-> Columns, rows |-> rs] : rs \in SeqsUpTo(DashRows, MaxRows)}

Note(section, text) == [t |-> "obj", section |-> section, text |-> text]
Flt(field) == [t |-> "obj", field |-> field]
Kpi(title, agg, field) == [t |-> "obj", title |-> title, agg |-> agg, field |-> field]
El(type, x, y, agg) == [t |-> "obj", type |-> type, x |-> x, y |-> y, agg |-> agg]
Sec(name, elements) == [t |-> "obj", section |-> name, elements |-> elements]
Page(story, flts, kpis, layout) ==
    [t |-> "obj", Story |-> story, Filters |-> flts, KPIs |-> kpis, Layout |-> layout,
     Pages |-> Undefined]

\* a page as SCHEMA_NOTE describes it
PageMain ==
    Page(List(<<Note(Str(<<"O">>), Str(<<"h">>))>>),
         List(<<Flt(Str(Region))>>),
         List(<<Kpi(Str(<<"T">>), Str(T_sum), Str(Sales)),
                Kpi(Str(<<"P">>), Str(T_avg), Str(Profit))>>),
         List(<<Sec(Str(<<"P">>),
                    List(<<El(Str(T_Bar), Str(Region), Str(Sales), Undefined)>>)),
                Sec(Str(<<"M">>),
                    List(<<El(Str(T_Pie), Str(Sales), Str(Sales), Str(T_count)),
                           El(Str(T_Table), Str(Region), Str(Sales), Undefined)>>))>>))

\* a chart without a grouping column, one on a column the dataset lacks
PageLoose ==
    Page(Undefined,
         List(<<Flt(Str(Month)), Flt(Str(Sales))>>),
         List(<<Kpi(Undefined, Str(T_max), Str(Sales))>>),
         List(<<Sec(Undefined,
                    List(<<El(Str(T_Pie), Undefined, Str(Sales), Str(T_min))>>)),
                Sec(Str(<<"T">>),
                    List(<<El(Undefined, Str(Month), Str(Sales), Str(T_avg))>>))>>))

\* a page with a null entry among its KPIs
PageBadKpi ==
    Page(Undefined, Undefined,
         List(<<Kpi(Str(<<"T">>), Str(T_count), Str(Sales)), Null,
                Kpi(Str(<<"U">>), Str(T_sum), Str(Sales))>>),
         List(<<Sec(Str(<<"P">>),
                    List(<<El(Str(T_Bar), Str(Region), Str(Sales), Undefined)>>))>>))

\* a page with a null entry among the elements of its second section
PageBadElement ==
    Page(Undefined,
         List(<<Flt(Str(Region))>>),
         List(<<Kpi(Str(<<"T">>), Str(T_distinct), Str(Sales))>>),
         List(<<Sec(Str(<<"P">>),
                    List(<<El(Str(T_Bar), Str(Region), Str(Sales), Str(T_max))>>)),
                Sec(Str(<<"Q">>),
                    List(<<El(Str(T_Pie), Str(Region), Str(Sales), Undefined), Null>>)),
                Sec(Str(<<"R">>),
                    List(<<El(Str(T_Table), Str(Region), Undefined, Undefined)>>))>>))

SchemaPages == {PageMain, PageLoose}
AnyPages == SchemaPages \cup {PageBadKpi, PageBadElement}

\* what the editor can make window.DASH_SPEC be: a page of the schema, a
\* page that itself carries "Pages" (a list, possibly empty)
WithPages(page, list) == [page EXCEPT !.Pages = list]
DashSpecs ==
    AnyPages
        \cup {WithPages(EmptyPage, List(<<p>>)) : p \in AnyPages}
        \cup {WithPages(PageMain, List(<<>>))}

---------------------------------------------------------------------------
(* The dashboard: the script's run and its listeners *)

\* SPEC.Pages[0]
FirstPage(spec) ==
    IF Len(spec.Pages.l) >= 1 THEN spec.Pages.l[1] ELSE Undefined

\* one handler run: which, its inputs, filters before it, whether it threw
Event(ev, x, name, before, threw) ==
    [ev |-> ev, x |-> x, name |-> name, before |-> before, threw |-> threw]
\* last.twice: the handler before this one was a click on the same x and
\* name; last.origin: filters before that first click
SameClick(e, x, name) ==
    e.ev = "click" /\ ~IsNullish(name) /\ e.x = x /\ e.name = name
NoCall == [op |-> "none"]
\* the Python script is not part of the run
NoSession == [at |-> "none"]

\* the script up to and including renderPage(SPEC.Pages[0] || {}): reading
\* [0] of a missing Pages throws before anything is rendered
Startup(raw, spec) ==
    IF IsNullish(spec.Pages)
    THEN [data |-> deepCopy(raw.rows), dom |-> EmptyDom, threw |-> TRUE]
    ELSE renderPage(IF IsNullish(FirstPage(spec)) THEN EmptyPage ELSE FirstPage(spec),
                    raw, EmptyFilters, EmptyDom)

Init ==
    /\ session = NoSession
    /\ RAW \in DashData
    /\ SPEC \in DashSpecs
    /\ filters = EmptyFilters
    /\ \E r \in {Startup(RAW, SPEC)} :
           /\ data = r.data
           /\ dom = r.dom
           /\ last = [cur |-> Event("init", Undefined, Undefined, EmptyFilters, r.threw),
                      twice |-> FALSE, origin |-> EmptyFilters]
    /\ ret = NoCall

\* the charts on display: <<section, element>> positions
ChartsShown ==
    {<<i, j>> \in (1..Len(dom.sections)) \X (1..2) :
        /\ j <= Len(dom.sections[i].elements)
        /\ dom.sections[i].elements[j].kind = "chart"}

\* the page a listener registered during a render holds: charts and
\* controls exist only when SPEC.Pages[0] is an object
ClosurePage == FirstPage(SPEC)

\* filters after the click listener, which returns early on a null name
AfterClick(flt, x, name) ==
    IF IsNullish(name) THEN flt ELSE ToggleFilter(flt, x, name)

\* chart.on('click'): toggle params.name for the element's x, re-render
ChartElementClicked ==
    \E pos \in ChartsShown :
        LET chart == dom.sections[pos[1]].elements[pos[2]] IN
        \E name \in {Str(chart.names[i]) : i \in 1..Len(chart.names)} \cup {Null} :
            \E flt \in {AfterClick(filters, chart.x, name)} :
            \E r \in {renderPage(ClosurePage, RAW, flt, dom)} :
               /\ filters' = flt
               /\ data' = IF IsNullish(name) THEN data ELSE r.data
               /\ dom' = IF IsNullish(name) THEN dom ELSE r.dom
               /\ last' = [cur |-> Event("click", chart.x, name, filters,
                                         ~IsNullish(name) /\ r.threw),
                           twice |-> SameClick(last.cur, chart.x, name),
                           origin |-> IF SameClick(last.cur, chart.x, name)
                                      THEN last.cur.before ELSE EmptyFilters]
               /\ UNCHANGED <<session, RAW, SPEC, ret>>

\* the export listener on the whole dataset
ExportAllRows(raw, flt) == raw.rows

\* filters after the reset listener's first statement
AfterReset(flt) == EmptyFilters

\* btnReset click: filters = {}; renderPage(SPEC.Pages[0])
ResetRequested ==
    \E flt \in {AfterReset(filters)} :
    \E r \in {IF IsNullish(SPEC.Pages)
               THEN [data |-> data, dom |-> dom, threw |-> TRUE]
               ELSE renderPage(FirstPage(SPEC), RAW, flt, dom)} :
       /\ filters' = flt
       /\ data' = r.data
       /\ dom' = r.dom
       /\ last' = [cur |-> Event("reset", Undefined, Undefined, filters, r.threw),
                   twice |-> FALSE, origin |-> EmptyFilters]
       /\ UNCHANGED <<session, RAW, SPEC, ret>>

\* const rows = applyFilters() of the export listener
ExportRows(raw, flt) == applyFilters(raw.rows, flt)

\* btnExport click: the projection is serialized and offered as a download
ExportRequested ==
    \E rows \in {ExportRows(RAW, filters)} :
       /\ ret' = [op |-> "export", csv |-> toCSV(rows, RAW.columns)]
       /\ UNCHANGED <<session, RAW, SPEC, filters, data, dom, last>>

Next == ChartElementClicked \/ ResetRequested \/ ExportRequested

Spec == Init /\ [][Next]_vars

---------------------------------------------------------------------------
(* The dashboard with its filter controls built.  renderPage does not call *)
(* buildFilters; here buildFilters(page) is run on the page on display, so *)
(* that the change listener it registers can be driven.                    *)

\* the page renderPage was given at startup
DisplayPage ==
    IF IsNullish(SPEC.Pages) \/ IsNullish(FirstPage(SPEC)) THEN EmptyPage
    ELSE FirstPage(SPEC)

\* buildFilters(page): the host #filters is rebuilt from the snapshot
BuildFiltersCalled ==
    \E b \in {buildFilters(DisplayPage, RAW.columns, data)} :
       /\ dom' = [dom EXCEPT !.filters = b.out]
       /\ last' = [cur |-> Event("build", Undefined, Undefined, filters, b.threw),
                   twice |-> FALSE, origin |-> EmptyFilters]
       /\ UNCHANGED <<session, RAW, SPEC, filters, data, ret>>

\* sel change: the selected options replace or clear the entry, re-render
FilterControlChanged ==
    \E i \in 1..Len(dom.filters) :
    \E picks \in SUBSET SeqRange(dom.filters[i].options) :
    \E flt \in {ChangeFilter(filters, dom.filters[i].field, picks)} :
    \E r \in {renderPage(DisplayPage, RAW, flt, dom)} :
       /\ filters' = flt
       /\ data' = r.data
       /\ dom' = r.dom
       /\ last' = [cur |-> Event("change", Str(dom.filters[i].field),
                                 [t |-> "picks", set |-> picks], filters, r.threw),
                   twice |-> FALSE, origin |-> EmptyFilters]
       /\ UNCHANGED <<session, RAW, SPEC, ret>>

NextControls ==
    ChartElementClicked \/ ResetRequested \/ BuildFiltersCalled \/ FilterControlChanged

SpecControls == Init /\ [][NextControls]_vars

---------------------------------------------------------------------------
(* applyFilters called on its own: any dataset, any Filter State *)

ProjRows ==
    {Row(r, v) : r \in {Str(East), Null, Num(1), Str(T_null)}, v \in {Num(100), Null}}
ProjData == {[columns |-> Columns, rows |-> rs] : rs \in SeqsUpTo(ProjRows, MaxCallRows)}

\* the values a key may accept; Month is not a column of the dataset
ProjLabels(key) ==
    IF key = Region THEN {East, <<"1">>, T_null}
    ELSE IF key = Sales THEN {<<"1", "0", "0">>}
    ELSE {East}
ProjFilters ==
    UNION {{f \in [K -> (SUBSET {East, <<"1">>, T_null, <<"1", "0", "0">>}) \ {{}}] :
               \A k \in K : f[k] \subseteq ProjLabels(k)} :
           K \in SUBSET {Region, Sales, Month}}

InitProject ==
    /\ session = NoSession
    /\ RAW \in ProjData
    /\ SPEC = EmptyPage
    /\ filters \in ProjFilters
    /\ data = RAW.rows
    /\ dom = EmptyDom
    /\ last = [cur |-> Event("none", Undefined, Undefined, EmptyFilters, FALSE),
               twice |-> FALSE, origin |-> EmptyFilters]
    /\ ret = NoCall

CallApplyFilters ==
    /\ ret = NoCall
    /\ ret' = [op |-> "applyFilters", out |-> applyFilters(RAW.rows, filters)]
    /\ UNCHANGED <<session, RAW, SPEC, filters, data, dom, last>>

NextProject == CallApplyFilters

SpecProject == InitProject /\ [][NextProject]_vars

---------------------------------------------------------------------------
(* aggregate called on its own: any rows, any kind *)

AggRows ==
    {Row(r, v) : r \in {Str(East), Str(West), Null},
                 v \in {Num(100), Num(1), Big(1, 0), Null, Str(<<"x">>)}}
AggData == {[columns |-> Columns, rows |-> rs] : rs \in SeqsUpTo(AggRows, MaxCallRows)}
AggKinds ==
    {Str(T_sum), Str(T_avg), Str(T_min), Str(T_max), Str(T_count), Str(T_distinct),
     Str(<<"A", "V", "G">>), Undefined}

InitAggregate ==
    /\ session = NoSession
    /\ RAW \in AggData
    /\ SPEC = EmptyPage
    /\ filters = EmptyFilters
    /\ data = RAW.rows
    /\ dom = EmptyDom
    /\ last = [cur |-> Event("none", Undefined, Undefined, EmptyFilters, FALSE),
               twice |-> FALSE, origin |-> EmptyFilters]
    /\ ret = NoCall

CallAggregate ==
    /\ ret = NoCall
    /\ \E agg \in AggKinds :
           ret' = [op |-> "aggregate", x |-> Str(Region), y |-> Str(Sales), agg |-> agg,
                   out |-> aggregate(RAW.rows, Str(Region), Str(Sales), agg)]
    /\ UNCHANGED <<session, RAW, SPEC, filters, data, dom, last>>

NextAggregate == CallAggregate

SpecAggregate == InitAggregate /\ [][NextAggregate]_vars

---------------------------------------------------------------------------
(* buildKPIs called on its own: any rows, any KPI entry, with or without a
   filter *)

KpiRows ==
    {Row(r, v) : r \in {Str(East), Str(West)},
                 v \in {Num(100), Num(1), Null, Str(<<"x">>)}}
KpiData == {[columns |-> Columns, rows |-> rs] : rs \in SeqsUpTo(KpiRows, MaxCallRows)}
\* a KPI on a column of the dataset or on one it lacks, of any kind
KpiEntries ==
    {Kpi(Str(<<"T">>), agg, Str(f)) : agg \in AggKinds, f \in {Sales, Profit}}
KpiFilters == {EmptyFilters, SetKey(EmptyFilters, Region, {East})}

InitKpi ==
    /\ session = NoSession
    /\ RAW \in KpiData
    /\ SPEC = EmptyPage
    /\ filters \in KpiFilters
    /\ data = applyFilters(RAW.rows, filters)
    /\ dom = EmptyDom
    /\ last = [cur |-> Event("none", Undefined, Undefined, EmptyFilters, FALSE),
               twice |-> FALSE, origin |-> EmptyFilters]
    /\ ret = NoCall

CallBuildKPIs ==
    /\ ret = NoCall
    /\ \E k \in KpiEntries :
           ret' = [op |-> "buildKPIs", k |-> k,
                   out |-> buildKPIs(Page(Undefined, Undefined, List(<<k>>), Undefined),
                                     RAW, filters).out]
    /\ UNCHANGED <<session, RAW, SPEC, filters, data, dom, last>>

NextKpi == CallBuildKPIs

SpecKpi == InitKpi /\ [][NextKpi]_vars

---------------------------------------------------------------------------
(* toCSV called on its own: any column names, any cells *)

\* column names, one of them with a comma in it
CsvColumns == {<<<<"R">>, <<"S">>>>, <<<<"R", ",", "x">>, <<"S">>>>}
\* cells: null, a number, plain text, text with a comma, a double quote,
\* a line break
CsvCells ==
    {Null, Num(5), Str(<<"a">>), Str(<<"a", ",", "b">>), Str(<<"\"">>), Str(<<"\n">>)}
CsvData ==
    UNION {{[columns |-> cols, rows |-> rs] :
               rs \in SeqsUpTo([{cols[1], cols[2]} -> CsvCells], MaxCsvRows)} :
           cols \in CsvColumns}

InitCsv ==
    /\ session = NoSession
    /\ RAW \in CsvData
    /\ SPEC = EmptyPage
    /\ filters = EmptyFilters
    /\ data = RAW.rows
    /\ dom = EmptyDom
    /\ last = [cur |-> Event("none", Undefined, Undefined, EmptyFilters, FALSE),
               twice |-> FALSE, origin |-> EmptyFilters]
    /\ ret = NoCall

CallToCSV ==
    /\ ret = NoCall
    /\ ret' = [op |-> "toCSV", out |-> toCSV(ExportRows(RAW, filters), RAW.columns)]
    /\ UNCHANGED <<session, RAW, SPEC, filters, data, dom, last>>

NextCsv == CallToCSV

SpecCsv == InitCsv /\ [][NextCsv]_vars

---------------------------------------------------------------------------
(* The Python script: extract_json, validation and fallback, active_page *)

\* a Python dict: key text -> value
Dict(d) == [t |-> "dict", d |-> d]
\* json.loads raised
JsonError == [t |-> "error"]
\* an exception that ends the script run
PyError == [t |-> "exception"]

\* the first position from i on that holds no white space
RECURSIVE SkipWs(_, _)
SkipWs(text, i) ==
    IF i <= Len(text) /\ IsSpace(text[i]) THEN SkipWs(text, i + 1) ELSE i

StartsWith(text, pat) == Len(text) >= Len(pat) /\ SubSeq(text, 1, Len(pat)) = pat

\* the character U+0060, written as a name of its own because a TLA+
\* string cannot hold it
Backtick == "U+0060"
\* the fence of a fenced block
Fence == <<Backtick, Backtick, Backtick>>

\* re.sub(pat, "", text) for a literal pat
RECURSIVE RemoveAll(_, _)
RemoveAll(text, pat) ==
    IF text = <<>> THEN <<>>
    ELSE IF StartsWith(text, pat)
    THEN RemoveAll(SubSeq(text, Len(pat) + 1, Len(text)), pat)
    ELSE <<Head(text)>> \o RemoveAll(Tail(text), pat)

\* re.sub of a fence with an optional "json" after it by the empty text
RECURSIVE RemoveFences(_)
RemoveFences(text) ==
    IF text = <<>> THEN <<>>
    ELSE IF StartsWith(text, Fence \o <<"j", "s", "o", "n">>)
    THEN RemoveFences(SubSeq(text, 8, Len(text)))
    ELSE IF StartsWith(text, Fence)
    THEN RemoveFences(SubSeq(text, 4, Len(text)))
    ELSE <<Head(text)>> \o RemoveFences(Tail(text))

\* re.search(r"\{[\s\S]*\}", text): from the first "{" to the last "}"
HasMatch(text) ==
    \E i, j \in 1..Len(text) : i < j /\ text[i] = "{" /\ text[j] = "}"
FirstOpen(text) ==
    CHOOSE i \in 1..Len(text) : text[i] = "{" /\ \A j \in 1..(i - 1) : text[j] # "{"
LastClose(text) ==
    CHOOSE i \in 1..Len(text) :
        text[i] = "}" /\ \A j \in (i + 1)..Len(text) : text[j] # "}"

\* re.sub(r",(\s*[}\]])", r"\1", text) from position i on
RECURSIVE DropTrailingCommas(_, _)
DropTrailingCommas(text, i) ==
    IF i > Len(text) THEN <<>>
    ELSE IF text[i] = "," /\ SkipWs(text, i + 1) <= Len(text)
            /\ text[SkipWs(text, i + 1)] \in {"}", "]"}
    THEN SubSeq(text, i + 1, SkipWs(text, i + 1))
         \o DropTrailingCommas(text, SkipWs(text, i + 1) + 1)
    ELSE <<text[i]>> \o DropTrailingCommas(text, i + 1)

\* the body of extract_json after the two re.sub that remove the fences
ExtractMatch(text) ==
    IF ~HasMatch(text) THEN <<"{", "}">>
    ELSE TrimRight(TrimLeft(
             DropTrailingCommas(SubSeq(text, FirstOpen(text), LastClose(text)), 1)))

extract_json(text) ==
    IF text = <<>> THEN <<"{", "}">>
    ELSE Const(RemoveAll(RemoveFences(text), Fence), ExtractMatch)

\* json.loads on the JSON the model writes: objects, arrays, strings
\* without escapes, unsigned integers, null, true, false, white space
ParseFail == [ok |-> FALSE]
ParseOk(v, i) == [ok |-> TRUE, v |-> v, i |-> i]

\* the closing quote of the string that opens at i, 0 when there is none
StringEnd(text, i) ==
    IF \E k \in (i + 1)..Len(text) : text[k] = "\""
    THEN CHOOSE k \in (i + 1)..Len(text) :
            text[k] = "\"" /\ \A j \in (i + 1)..(k - 1) : text[j] # "\""
    ELSE 0

\* the last digit of the run of digits that starts at i
DigitsEnd(text, i) ==
    CHOOSE k \in i..Len(text) :
        /\ \A j \in i..k : IsDigit(text[j])
        /\ (k = Len(text) \/ ~IsDigit(text[k + 1]))

RECURSIVE ParseValue(_, _)
RECURSIVE ParseMembers(_, _, _)
RECURSIVE ParseElements(_, _, _)

\* a value that starts at the first non-space position from i0 on
ParseValue(text, i0) ==
    LET i == SkipWs(text, i0) IN
    IF i > Len(text) THEN ParseFail
    ELSE IF text[i] = "{"
    THEN (IF SkipWs(text, i + 1) <= Len(text) /\ text[SkipWs(text, i + 1)] = "}"
          THEN ParseOk(Dict(<<>>), SkipWs(text, i + 1) + 1)
          ELSE ParseMembers(text, SkipWs(text, i + 1), <<>>))
    ELSE IF text[i] = "["
    THEN (IF SkipWs(text, i + 1) <= Len(text) /\ text[SkipWs(text, i + 1)] = "]"
          THEN ParseOk(List(<<>>), SkipWs(text, i + 1) + 1)
          ELSE ParseElements(text, i + 1, <<>>))
    ELSE IF text[i] = "\""
    THEN (IF StringEnd(text, i) = 0 THEN ParseFail
          ELSE ParseOk(Str(SubSeq(text, i + 1, StringEnd(text, i) - 1)),
                       StringEnd(text, i) + 1))
    ELSE IF IsDigit(text[i])
    THEN ParseOk(Num(DigitsToNat(SubSeq(text, i, DigitsEnd(text, i)))),
                 DigitsEnd(text, i) + 1)
    ELSE IF StartsWith(SubSeq(text, i, Len(text)), <<"n", "u", "l", "l">>)
    THEN ParseOk(Null, i + 4)
    ELSE IF StartsWith(SubSeq(text, i, Len(text)), <<"t", "r", "u", "e">>)
    THEN ParseOk(Bool(TRUE), i + 4)
    ELSE IF StartsWith(SubSeq(text, i, Len(text)), <<"f", "a", "l", "s", "e">>)
    THEN ParseOk(Bool(FALSE), i + 5)
    ELSE ParseFail

\* the members of an object from the key at i on, acc the members read
ParseMembers(text, i, acc) ==
    IF i > Len(text) \/ text[i] # "\"" \/ StringEnd(text, i) = 0 THEN ParseFail
    ELSE LET k == StringEnd(text, i)
             c == SkipWs(text, k + 1)
         IN IF c > Len(text) \/ text[c] # ":" THEN ParseFail
            ELSE \* the value, then "," and the next key, or "}"
                 LET r == ParseValue(text, c + 1) IN
                 IF ~r.ok THEN ParseFail
                 ELSE LET e == SkipWs(text, r.i)
                          acc2 == SetKey(acc, SubSeq(text, i + 1, k - 1), r.v)
                      IN IF e > Len(text) THEN ParseFail
                         ELSE IF text[e] = "}" THEN ParseOk(Dict(acc2), e + 1)
                         ELSE IF text[e] = ","
                         THEN ParseMembers(text, SkipWs(text, e + 1), acc2)
                         ELSE ParseFail

\* the elements of an array from i on, acc the elements read
ParseElements(text, i, acc) ==
    LET r == ParseValue(text, i) IN
    IF ~r.ok THEN ParseFail
    ELSE LET e == SkipWs(text, r.i) IN
         IF e > Len(text) THEN ParseFail
         ELSE IF text[e] = "]" THEN ParseOk(List(Append(acc, r.v)), e + 1)
         ELSE IF text[e] = "," THEN ParseElements(text, e + 1, Append(acc, r.v))
         ELSE ParseFail

\* json.loads(text): the value, or the error it raises
loads(text) ==
    LET r == ParseValue(text, 1) IN
    IF r.ok /\ SkipWs(text, r.i) > Len(text) THEN r.v ELSE JsonError

\* the dict of lines 129-149, read without the closing brace that line 150
\* has too many
FallbackPage ==
    Dict(<<"n", "a", "m", "e">> :> Str(<<"S", "t", "o", "r", "y", " ", "D", "a", "s", "h", "b", "o", "a", "r", "d">>)
      @@ <<"S", "t", "o", "r", "y">> :> List(<<Dict(<<"s", "e", "c", "t", "i", "o", "n">> :> Str(<<"O", "v", "e", "r", "v", "i", "e", "w">>)
                 @@ <<"t", "e", "x", "t">> :> Str(<<"E", "x", "e", "c", "u", "t", "i", "v", "e", " ", "h", "i", "g", "h", "l", "i", "g", "h", "t", "s", ".">>)),
               Dict(<<"s", "e", "c", "t", "i", "o", "n">> :> Str(<<"P", "e", "r", "f", "o", "r", "m", "a", "n", "c", "e">>)
                 @@ <<"t", "e", "x", "t">> :> Str(<<"K", "P", "I", "s", " ", "a", "n", "d", " ", "r", "e", "g", "i", "o", "n", " ", "p", "e", "r", "f", "o", "r", "m", "a", "n", "c", "e", ".">>)),
               Dict(<<"s", "e", "c", "t", "i", "o", "n">> :> Str(<<"T", "r", "e", "n", "d", "s">>)
                 @@ <<"t", "e", "x", "t">> :> Str(<<"T", "i", "m", "e", " ", "t", "r", "e", "n", "d", "s", " ", "a", "n", "d", " ", "m", "i", "x", ".">>)),
               Dict(<<"s", "e", "c", "t", "i", "o", "n">> :> Str(<<"R", "i", "s", "k", "s">>)
                 @@ <<"t", "e", "x", "t">> :> Str(<<"W", "e", "a", "k", " ", "s", "p", "o", "t", "s", ".">>)),
               Dict(<<"s", "e", "c", "t", "i", "o", "n">> :> Str(<<"R", "e", "c", "o", "m", "m", "e", "n", "d", "a", "t", "i", "o", "n", "s">>)
                 @@ <<"t", "e", "x", "t">> :> Str(<<"A", "c", "t", "i", "o", "n", "s", " ", "t", "o", " ", "t", "a", "k", "e", ".">>))>>)
      @@ <<"F", "i", "l", "t", "e", "r", "s">> :> List(<<Dict(<<"f", "i", "e", "l", "d">> :> Str(<<"R", "e", "g", "i", "o", "n">>))>>)
      @@ <<"K", "P", "I", "s">> :> List(<<Dict(<<"t", "i", "t", "l", "e">> :> Str(<<"T", "o", "t", "a", "l", " ", "S", "a", "l", "e", "s">>)
                 @@ <<"a", "g", "g">> :> Str(<<"s", "u", "m">>)
                 @@ <<"f", "i", "e", "l", "d">> :> Str(<<"S", "a", "l", "e", "s">>)
                 @@ <<"f", "o", "r", "m", "a", "t">> :> Str(<<"a", "u", "t", "o">>)),
               Dict(<<"t", "i", "t", "l", "e">> :> Str(<<"A", "v", "g", " ", "P", "r", "o", "f", "i", "t">>)
                 @@ <<"a", "g", "g">> :> Str(<<"a", "v", "g">>)
                 @@ <<"f", "i", "e", "l", "d">> :> Str(<<"P", "r", "o", "f", "i", "t">>)
                 @@ <<"f", "o", "r", "m", "a", "t">> :> Str(<<"a", "u", "t", "o">>))>>)
      @@ <<"L", "a", "y", "o", "u", "t">> :> List(<<Dict(<<"s", "e", "c", "t", "i", "o", "n">> :> Str(<<"P", "e", "r", "f", "o", "r", "m", "a", "n", "c", "e">>)
                 @@ <<"e", "l", "e", "m", "e", "n", "t", "s">> :> List(<<Dict(<<"t", "y", "p", "e">> :> Str(<<"B", "a", "r">>)
                            @@ <<"x">> :> Str(<<"R", "e", "g", "i", "o", "n">>)
                            @@ <<"y">> :> Str(<<"S", "a", "l", "e", "s">>))>>)),
               Dict(<<"s", "e", "c", "t", "i", "o", "n">> :> Str(<<"T", "r", "e", "n", "d", "s">>)
                 @@ <<"e", "l", "e", "m", "e", "n", "t", "s">> :> List(<<Dict(<<"t", "y", "p", "e">> :> Str(<<"L", "i", "n", "e">>)
                            @@ <<"x">> :> Str(<<"M", "o", "n", "t", "h">>)
                            @@ <<"y">> :> Str(<<"P", "r", "o", "f", "i", "t">>))>>)),
               Dict(<<"s", "e", "c", "t", "i", "o", "n">> :> Str(<<"M", "i", "x">>)
                 @@ <<"e", "l", "e", "m", "e", "n", "t", "s">> :> List(<<Dict(<<"t", "y", "p", "e">> :> Str(<<"P", "i", "e">>)
                            @@ <<"x">> :> Str(<<"C", "a", "t", "e", "g", "o", "r", "y">>)
                            @@ <<"y">> :> Str(<<"S", "a", "l", "e", "s">>))>>))>>))
FallbackSpec == Dict(<<"P", "a", "g", "e", "s">> :> List(<<FallbackPage>>))

\* the text of st.session_state.spec: text typed or generated, or
\* json.dumps(v, indent=2) of a dict v of the script, which holds no fence
\* and no comma before a closing bracket, so that extract_json and
\* json.loads give v back
Text(s) == [t |-> "text", s |-> s]
Dumps(v) == [t |-> "dumps", v |-> v]

\* json.loads(extract_json(st.session_state.spec))
LoadsSpec(spec) == IF spec.t = "dumps" THEN spec.v ELSE loads(extract_json(spec.s))

\* Python's truth value of a JSON value
Truthy(v) ==
    CASE v.t = "null" -> FALSE
      [] v.t = "bool" -> v.b
      [] v.t = "num" -> v.n # 0
      [] v.t = "str" -> v.s # <<>>
      [] v.t = "list" -> v.l # <<>>
      [] v.t = "dict" -> DOMAIN v.d # {}

\* (spec_obj.get("Pages") or [{}])[0]: [0] of a list is its first element,
\* of a text its first character, of a dict KeyError, of a number or True
\* TypeError; spec_obj.get of a value that is no dict is AttributeError
ActivePage(spec_obj) ==
    IF spec_obj.t # "dict" THEN PyError
    ELSE IF <<"P", "a", "g", "e", "s">> \notin DOMAIN spec_obj.d
            \/ ~Truthy(spec_obj.d[<<"P", "a", "g", "e", "s">>])
    THEN Dict(<<>>)
    ELSE LET pages == spec_obj.d[<<"P", "a", "g", "e", "s">>] IN
         CASE pages.t = "list" -> pages.l[1]
           [] pages.t = "str" -> Str(<<pages.s[1]>>)
           [] OTHER -> PyError

\* what comes before the JSON object in a model output
Prose ==
    {<<>>,
     <<"H", "e", "r", "e", ":", " ">>,
     <<Backtick, Backtick, Backtick, "j", "s", "o", "n", "\n">>,
     <<"a", " ", "{", "x", "}", " ">>}
\* the JSON object of a model output, some with trailing commas
Objects ==
    {<<"{", "\"", "P", "a", "g", "e", "s", "\"", ":", "[", "{", "\"", "n", "\"", ":", "1", "}", "]", "}">>,
     <<"{", "\"", "P", "a", "g", "e", "s", "\"", ":", "[", "{", "\"", "n", "\"", ":", "1", ",", "}", ",", "]", ",", "}">>,
     <<"{", "\"", "a", "\"", ":", "1", "}">>,
     <<"{", "\"", "n", "\"", ":", "\"", ",", "}", "\"", "}">>}
\* what comes after the JSON object in a model output
Closing ==
    {<<>>,
     <<"\n", Backtick, Backtick, Backtick>>,
     <<" ", "{", "y", "}">>,
     <<" ", "o", "k">>}
\* what the user leaves in the text area
EditorTexts ==
    {<<>>,
     <<"h", "e", "l", "l", "o">>,
     <<"{", "o", "o", "p", "s", "}">>,
     <<"{", "\"", "P", "a", "g", "e", "s", "\"", ":", "[", "]", "}">>,
     <<"{", "\"", "P", "a", "g", "e", "s", "\"", ":", "\"", "a", "b", "\"", "}">>,
     <<"{", "\"", "P", "a", "g", "e", "s", "\"", ":", "{", "\"", "a", "\"", ":", "1", "}", "}">>,
     <<"{", "\"", "P", "a", "g", "e", "s", "\"", ":", "n", "u", "l", "l", "}">>,
     <<"{", "\"", "P", "a", "g", "e", "s", "\"", ":", "[", "{", "\"", "n", "\"", ":", "1", "}">>,
     <<"[", "1", "]">>,
     <<"{", "\"", "P", "a", "g", "e", "s", "\"", ":", "[", "{", "\"", "n", "\"", ":", "1", "}", "]", "}">>}

\* the script stands before the Generate block with spec in the session
AtTop(spec) == [at |-> "top", spec |-> spec]
AtEditor(spec) == [at |-> "editor", spec |-> spec]
AtValidate(spec) == [at |-> "validate", spec |-> spec]
AtSend(spec) == [at |-> "send", spec |-> spec]

\* a first run on an uploaded workbook: the session holds the empty text
InitSession ==
    /\ session = AtTop(Text(<<>>))
    /\ RAW = [rows |-> <<>>, columns |-> <<Region, Sales>>]
    /\ SPEC = EmptyPage
    /\ filters = EmptyFilters
    /\ data = RAW.rows
    /\ dom = EmptyDom
    /\ last = [cur |-> Event("none", Undefined, Undefined, EmptyFilters, FALSE),
               twice |-> FALSE, origin |-> EmptyFilters]
    /\ ret = NoCall

\* the Generate block of a run with the button pressed, the model output
\* being pre, body (none when empty) and post: the session takes the
\* extracted text unless it is empty or "{}"
SpecGenerated ==
    /\ session.at = "top"
    /\ \E pre \in Prose, body \in Objects \cup {<<>>}, post \in Closing :
          /\ \E spec \in {extract_json(pre \o body \o post)} :
                /\ session' = AtEditor(IF spec = <<>> \/ spec = <<"{", "}">>
                                       THEN session.spec ELSE Text(spec))
                /\ ret' = [op |-> "extract_json", pre |-> pre, body |-> body,
                           post |-> post, out |-> spec]
    /\ UNCHANGED <<RAW, SPEC, filters, data, dom, last>>

\* the Generate block of a run without the button pressed
GenerateSkipped ==
    /\ session.at = "top"
    /\ session' = AtEditor(session.spec)
    /\ UNCHANGED <<RAW, SPEC, filters, data, dom, last, ret>>

\* the text area: what it holds becomes the session's text
SpecEdited ==
    /\ session.at = "editor"
    /\ \E text \in {Text(s) : s \in EditorTexts} \cup {session.spec} :
          session' = AtValidate(text)
    /\ UNCHANGED <<RAW, SPEC, filters, data, dom, last, ret>>

\* Validate / fallback: the fallback replaces a text that json.loads rejects
SpecValidated ==
    /\ session.at = "validate"
    /\ \E obj \in {LoadsSpec(session.spec)} :
          /\ session' = AtSend(IF obj = JsonError THEN Dumps(FallbackSpec)
                               ELSE session.spec)
          /\ ret' = [op |-> "validate", spec |-> session.spec,
                     valid |-> obj # JsonError]
    /\ UNCHANGED <<RAW, SPEC, filters, data, dom, last>>

\* Send data + spec to HTML: the page that window.DASH_SPEC is given, or the
\* exception that ends the run
PageSent ==
    /\ session.at = "send"
    /\ session' = AtTop(session.spec)
    /\ ret' = [op |-> "st_html", spec |-> session.spec,
               page |-> ActivePage(LoadsSpec(session.spec))]
    /\ UNCHANGED <<RAW, SPEC, filters, data, dom, last>>

NextSession ==
    SpecGenerated \/ GenerateSkipped \/ SpecEdited \/ SpecValidated \/ PageSent

SpecSession == InitSession /\ [][NextSession]_vars

---------------------------------------------------------------------------
(* Properties *)

\* the k-th smallest member of a set of indices
KthIndex(I, k) == CHOOSE i \in I : Cardinality({j \in I : j < i}) = k - 1

\* a row is accepted when every filtered column is a column of the row
\* whose cell is not null and whose string encoding is in the accepted set
Accepted(r, flt) ==
    \A c \in DOMAIN flt : c \in DOMAIN r /\ r[c] # Null /\ String(r[c]) \in flt[c]

\* C1: for every dataset and Filter State, applyFilters returns exactly
\* the accepted rows, in dataset order; a row that is null in a filtered
\* column never passes, and with no filter every row is returned.
C1_ProjectionIsAcceptedRows ==
    ret.op = "applyFilters" =>
        LET rows == RAW.rows
            I == {i \in 1..Len(rows) : Accepted(rows[i], filters)}
        IN /\ Len(ret.out) = Cardinality(I)
           /\ \A k \in 1..Len(ret.out) : ret.out[k] = rows[KthIndex(I, k)]
           /\ (DOMAIN filters = {} => ret.out = rows)

\* a call with a filter on Region where a null-Region row lies between two
\* rows that pass
C1_Witness ==
    /\ ret.op = "applyFilters"
    /\ Region \in DOMAIN filters
    /\ Len(RAW.rows) = 3
    /\ RAW.rows[2][Region] = Null
    /\ ret.out = <<RAW.rows[1], RAW.rows[3]>>

\* what the claim of C10 counts as a valid numeric measure: not null, and
\* a number (or text that reads as one)
ValidNumeric(v) == v # Null /\ v # Undefined /\ ~isNaN(Number(v))

\* the valid numeric measures of the rows whose group label is k
MeasuresOf(rows, x, y, k) ==
    LET mine == SelectSeq(rows, LAMBDA r : String(Get(r, String(x))) = k
                                           /\ ValidNumeric(Get(r, String(y))))
    IN [i \in 1..Len(mine) |-> Number(Get(mine[i], String(y)))]

LowerKinds == {T_sum, T_avg, T_min, T_max, T_count, T_distinct}

\* C10: aggregate emits one entry per distinct string-encoded grouping
\* value, holding the kind applied to the valid numeric measures of the
\* group's rows, null and non-numeric measures not being valid (min, max
\* and avg stated for groups that have a valid measure, avg where exact).
C10_AggregatePerGroup ==
    (ret.op = "aggregate" /\ ret.agg.t = "str" /\ ret.agg.s \in LowerKinds) =>
        LET rows == RAW.rows
            labels == {String(Get(rows[i], String(ret.x))) : i \in 1..Len(rows)}
            out == ret.out
        IN /\ {out[i].x : i \in 1..Len(out)} = labels
           /\ Len(out) = Cardinality(labels)
           /\ \A i \in 1..Len(out) :
                  LET m == MeasuresOf(rows, ret.x, ret.y, out[i].x)
                      kind == ret.agg.s
                  IN /\ kind = T_sum => out[i].y = SumSeq(m)
                     /\ kind = T_count => out[i].y = Num(Len(m))
                     /\ kind = T_distinct => out[i].y = Num(Cardinality(SeqRange(m)))
                     /\ (kind = T_min /\ m # <<>>) =>
                            out[i].y = (CHOOSE a \in SeqRange(m) :
                                           \A b \in SeqRange(m) : ~Less(b, a))
                     /\ (kind = T_max /\ m # <<>>) =>
                            out[i].y = (CHOOSE a \in SeqRange(m) :
                                           \A b \in SeqRange(m) : ~Less(a, b))
                     /\ (kind = T_avg /\ m # <<>> /\ SumSeq(m).t = "num"
                           /\ SumSeq(m).n % Len(m) = 0) =>
                            out[i].y = Num(SumSeq(m).n \div Len(m))

\* C2: in every state reached by filter-control changes, chart clicks and
\* resets, every column present in filters has a non-empty accepted set.
C2_NoEmptyAcceptedSet == \A k \in DOMAIN filters : filters[k] # {}

\* a click has just removed the last accepted value of a column, and the
\* column is gone from filters
C2_Witness ==
    /\ last.cur.ev = "click"
    /\ ~IsNullish(last.cur.name)
    /\ String(last.cur.x) \in DOMAIN last.cur.before
    /\ String(last.cur.x) \notin DOMAIN filters

\* the rows of a projection that a chart on x puts in the group labelled g
GroupOf(rows, x, g) == SelectSeq(rows, LAMBDA r : String(Get(r, String(x))) = g)

\* a click on a category of a chart whose column had no filter
FirstClick ==
    /\ last.cur.ev = "click"
    /\ ~IsNullish(last.cur.name)
    /\ String(last.cur.x) \notin DOMAIN last.cur.before

\* C3 as claimed: after a click on category G of a chart whose column had
\* no filter, filters holds {G} for the column and the projection is
\* exactly the rows the chart had in group G, for every category; a
\* second click on G restores filters and the projection.
C3_ClickShowsGroup ==
    /\ FirstClick =>
          /\ filters = SetKey(last.cur.before, String(last.cur.x), {String(last.cur.name)})
          /\ data = GroupOf(applyFilters(RAW.rows, last.cur.before),
                            last.cur.x, String(last.cur.name))
    /\ (last.twice /\ String(last.cur.x) \notin DOMAIN last.origin) =>
          /\ filters = last.origin
          /\ data = applyFilters(RAW.rows, last.origin)

\* C3 amended: the projection after the click is the rows of group G whose
\* grouping value is neither null nor missing (the whole group for every
\* other category); the rest as claimed.
C3_ClickShowsNonNullGroup ==
    /\ FirstClick =>
          /\ filters = SetKey(last.cur.before, String(last.cur.x), {String(last.cur.name)})
          /\ data = SelectSeq(GroupOf(applyFilters(RAW.rows, last.cur.before),
                                      last.cur.x, String(last.cur.name)),
                              LAMBDA r : ~IsNullish(Get(r, String(last.cur.x))))
    /\ (last.twice /\ String(last.cur.x) \notin DOMAIN last.origin) =>
          /\ filters = last.origin
          /\ data = applyFilters(RAW.rows, last.origin)

\* the second of two clicks on East of a chart on Region that had no
\* filter, on a dataset that also has another region
C3_Witness ==
    /\ last.twice
    /\ last.cur.x = Str(Region)
    /\ last.cur.name = Str(East)
    /\ Region \notin DOMAIN last.origin
    /\ last.cur.before = SetKey(last.origin, Region, {East})
    /\ Len(GroupOf(RAW.rows, Str(Region), East)) < Len(RAW.rows)

\* the labels a click can carry in the model
ClickLabels == {East, West, T_null, <<"1", "0", "0">>, <<"5", "0">>}

\* C4: two clicks in a row on the same column and label leave filters as
\* it was before the first and the projection the same row sequence; the
\* toggle applied twice to the current filters gives them back, for every
\* chart column and label.
C4_TogglePairIsIdentity ==
    /\ last.twice =>
          /\ filters = last.origin
          /\ data = applyFilters(RAW.rows, last.origin)
    /\ \A x \in {Str(Region), Str(Sales), Str(Month), Undefined} :
       \A l \in ClickLabels :
          ToggleFilter(ToggleFilter(filters, x, Str(l)), x, Str(l)) = filters

\* a pair of clicks that took a value out of a filter and put it back
C4_Witness ==
    /\ last.twice
    /\ String(last.cur.x) \in DOMAIN last.origin
    /\ String(last.cur.name) \in last.origin[String(last.cur.x)]
    /\ filters = last.origin

\* the entries of a list that are on display are the first entries of a
\* fresh build
IsPrefix(shown, fresh) ==
    /\ Len(shown) <= Len(fresh)
    /\ \A i \in 1..Len(shown) : shown[i] = fresh[i]

\* C5: when a handler has completed, every KPI card, chart and table on
\* display is the one computed from the projection of filters as it now
\* stands, and the snapshot is that projection.
C5_WidgetsShowCurrentProjection ==
    /\ data = applyFilters(RAW.rows, filters)
    /\ IsPrefix(dom.kpis, buildKPIs(DisplayPage, RAW, filters).out)
    /\ IsPrefix(dom.sections, buildSections(DisplayPage, RAW, filters).out)

\* after a click that narrowed the projection, with cards and charts on
\* display
C5_Witness ==
    /\ last.cur.ev = "click"
    /\ ~last.cur.threw
    /\ DOMAIN filters # {}
    /\ Len(data) < Len(RAW.rows)
    /\ Len(dom.kpis) > 0
    /\ Len(dom.sections) > 1

\* C6: a reset leaves filters empty and completes a full re-render, the
\* widgets showing the whole dataset (stated for the pages of the schema).
C6_ResetRerenders ==
    (last.cur.ev = "reset" /\ SPEC \in SchemaPages) =>
        /\ filters = EmptyFilters
        /\ ~last.cur.threw
        /\ data = RAW.rows

\* C7: a change of a filter control makes the entry of its column exactly
\* the selected values, or removes it when none is selected, whatever it
\* held, and leaves every other column's entry as it was.
C7_ControlReplacesEntry ==
    last.cur.ev = "change" =>
        LET f == last.cur.x.s
            picks == last.cur.name.set
        IN /\ picks # {} => (f \in DOMAIN filters /\ filters[f] = picks)
           /\ picks = {} => f \notin DOMAIN filters
           /\ DOMAIN filters \ {f} = DOMAIN last.cur.before \ {f}
           /\ \A k \in DOMAIN filters \ {f} : filters[k] = last.cur.before[k]

\* a change that replaced an entry a chart click had made, while another
\* column was filtered too
C7_Witness ==
    /\ last.cur.ev = "change"
    /\ last.cur.x = Str(Region)
    /\ Region \in DOMAIN last.cur.before
    /\ last.cur.name.set # {}
    /\ ~(last.cur.before[Region] \subseteq last.cur.name.set)
    /\ Sales \in DOMAIN filters

\* the number of visuals in a list of sections
RECURSIVE CountVisuals(_)
CountVisuals(secs) ==
    IF secs = <<>> THEN 0
    ELSE Len(Head(secs).elements) + CountVisuals(Tail(secs))

\* the sections of a page with their elements as plain lists
DeclaredSections(page) ==
    [i \in 1..Len(OrEmpty(page.Layout)) |->
        [elements |-> OrEmpty(OrEmpty(page.Layout)[i].elements)]]

\* C8: after initialization with a page of the schema, the dashboard shows
\* one KPI card per declared KPI and one visual per declared element.
C8_InitShowsFirstPage ==
    (last.cur.ev = "init" /\ SPEC \in SchemaPages) =>
        /\ Len(dom.kpis) = Len(OrEmpty(SPEC.KPIs))
        /\ CountVisuals(dom.sections) = CountVisuals(DeclaredSections(SPEC))

\* C9: after a render that completed, the dashboard holds one filter
\* control per declared filter whose field is a dataset column.
C9_OneControlPerFilter ==
    (last.cur.ev \in {"init", "click", "reset"} /\ ~last.cur.threw) =>
        Len(dom.filters) =
            Len(SelectSeq(OrEmpty(DisplayPage.Filters),
                          LAMBDA f : columnsIncludes(RAW.columns, f.field)))

\* the orderings of n rows
Perms(n) == {p \in [1..n -> 1..n] : \A i, j \in 1..n : p[i] = p[j] => i = j}

\* C11: for every permutation of the rows aggregate returns the same
\* sequence of entries, and the entries are in strictly ascending order of
\* the group label.
C11_AggregateOrderIndependent ==
    ret.op = "aggregate" =>
        /\ \A p \in Perms(Len(RAW.rows)) :
               aggregate([i \in 1..Len(RAW.rows) |-> RAW.rows[p[i]]],
                         ret.x, ret.y, ret.agg) = ret.out
        /\ \A i \in 1..(Len(ret.out) - 1) : TextGT(ret.out[i + 1].x, ret.out[i].x)

\* C12: for a group that has rows but no valid numeric measure value,
\* aggregate emits 0 for sum, count and distinct and NaN for avg, min and
\* max, never another number.
C12_EmptyGroupValue ==
    (ret.op = "aggregate" /\ ret.agg.t = "str" /\ ret.agg.s \in LowerKinds) =>
        \A i \in 1..Len(ret.out) :
            MeasuresOf(RAW.rows, ret.x, ret.y, ret.out[i].x) = <<>> =>
                IF ret.agg.s \in {T_sum, T_count, T_distinct}
                THEN ret.out[i].y = Num(0)
                ELSE ret.out[i].y = NaN

\* the rows with a valid numeric value in a column
ValidRows(rows, field) == SelectSeq(rows, LAMBDA r : ValidNumeric(Get(r, field)))

\* C13: a KPI of kind count on a column shows the number of projected
\* rows whose value in the column is non-null and numeric ("N/A" when
\* there is none, as C14 has it), and shows the same for every ordering
\* of the rows.
C13_KpiCountsValidRows ==
    (ret.op = "buildKPIs" /\ ret.k.agg = Str(T_count) /\ ret.k.field = Str(Sales)) =>
        LET n == Len(ValidRows(applyFilters(RAW.rows, filters), Sales))
        IN /\ ret.out[1].val = IF n = 0 THEN Str(T_NA) ELSE numberFormat(Num(n))
           /\ \A p \in Perms(Len(RAW.rows)) :
                  buildKPIs(Page(Undefined, Undefined, List(<<ret.k>>), Undefined),
                            [RAW EXCEPT !.rows = [i \in 1..Len(RAW.rows) |-> RAW.rows[p[i]]]],
                            filters).out = ret.out

\* C14: a KPI card shows "N/A" whenever its column is not a column of the
\* dataset or no projected row has a valid numeric value in it; it never
\* shows a number then.
C14_KpiShowsNA ==
    ret.op = "buildKPIs" =>
        ((~columnsIncludes(RAW.columns, ret.k.field)
          \/ ValidRows(applyFilters(RAW.rows, filters), ret.k.field.s) = <<>>)
            => ret.out[1].val = Str(T_NA))

\* C15: a chart whose grouping column is missing from its element or is
\* not a column of the dataset shows no category, and every key of
\* filters is a column of the dataset.
C15_UnknownColumnChartInert ==
    /\ \A pos \in ChartsShown :
           LET chart == dom.sections[pos[1]].elements[pos[2]]
           IN ~columnsIncludes(RAW.columns, chart.x) => chart.names = <<>>
    /\ \A k \in DOMAIN filters : \E i \in 1..Len(RAW.columns) : RAW.columns[i] = k

\* the entries of a list that are objects
WellFormed(list) == SelectSeq(OrEmpty(list), LAMBDA e : ~IsNullish(e))

\* the well-formed elements a page declares, over its well-formed sections
RECURSIVE CountWellFormed(_)
CountWellFormed(secs) ==
    IF secs = <<>> THEN 0
    ELSE Len(WellFormed(Head(secs).elements)) + CountWellFormed(Tail(secs))

\* C16: when an entry among the KPIs or among a section's elements is
\* malformed, every well-formed KPI and element of the page is still
\* rendered.
C16_SiblingsStillRendered ==
    ~IsNullish(SPEC.Pages) =>
        /\ Len(dom.kpis) = Len(WellFormed(DisplayPage.KPIs))
        /\ CountVisuals(dom.sections) = CountWellFormed(WellFormed(DisplayPage.Layout))

\* C17: an export serializes the current projection and leaves filters,
\* the dataset, the snapshot and every rendered widget unchanged.
C17_ExportLeavesStateUnchanged ==
    [][(ret' # ret /\ ret'.op = "export") =>
          /\ ret'.csv = toCSV(data, RAW.columns)
          /\ filters' = filters
          /\ RAW' = RAW
          /\ data' = data
          /\ dom' = dom]_vars

\* an export of a projection that a filter has narrowed, widgets on display
C17_Witness ==
    /\ ret.op = "export"
    /\ DOMAIN filters # {}
    /\ Len(data) < Len(RAW.rows)
    /\ Len(data) > 0
    /\ ret.csv = toCSV(data, RAW.columns)
    /\ Len(dom.sections) > 0

\* comma-separated, double-quoted text read back from position i: q is
\* whether the reader is inside quotes, started whether the field has
\* begun, field and row what it has read of the current field and record.
\* A quote inside quotes is written twice; a final line break ends the
\* last record.
RECURSIVE ParseFrom(_, _, _, _, _, _, _)
ParseFrom(text, i, q, started, field, row, recs) ==
    IF i > Len(text)
    THEN (IF ~started /\ row = <<>> THEN recs ELSE Append(recs, Append(row, field)))
    ELSE IF q
    THEN (IF text[i] = "\"" /\ i < Len(text) /\ text[i + 1] = "\""
          THEN ParseFrom(text, i + 2, TRUE, TRUE, Append(field, "\""), row, recs)
          ELSE IF text[i] = "\""
          THEN ParseFrom(text, i + 1, FALSE, TRUE, field, row, recs)
          ELSE ParseFrom(text, i + 1, TRUE, TRUE, Append(field, text[i]), row, recs))
    ELSE IF text[i] = "\"" /\ ~started
    THEN ParseFrom(text, i + 1, TRUE, TRUE, field, row, recs)
    ELSE IF text[i] = ","
    THEN ParseFrom(text, i + 1, FALSE, FALSE, <<>>, Append(row, field), recs)
    ELSE IF text[i] = "\n"
    THEN ParseFrom(text, i + 1, FALSE, FALSE, <<>>, <<>>,
                   Append(recs, Append(row, field)))
    ELSE ParseFrom(text, i + 1, FALSE, TRUE, Append(field, text[i]), row, recs)

ParseCsv(text) == ParseFrom(text, 1, FALSE, FALSE, <<>>, <<>>, <<>>)

\* the table an export stands for: the column names, then per row the
\* string encoding of each cell, null as the empty text
ExportedTable(rows, columns) ==
    <<columns>> \o [i \in 1..Len(rows) |->
                      [j \in 1..Len(columns) |-> CellText(Get(rows[i], columns[j]))]]

\* C18: the export read back as comma-separated, double-quoted text is
\* the header of column names followed by one record per projected row,
\* in order, each cell equal to the string encoding of the row's cell
\* (null as the empty text), whatever the names and cells contain.
C18_ExportRoundTrips ==
    ret.op = "toCSV" => ParseCsv(ret.out) = ExportedTable(RAW.rows, RAW.columns)

\* the text yields a JSON object with a list of pages
HasPageList(spec) ==
    LET obj == LoadsSpec(spec) IN
    /\ obj.t = "dict"
    /\ <<"P", "a", "g", "e", "s">> \in DOMAIN obj.d
    /\ obj.d[<<"P", "a", "g", "e", "s">>].t = "list"

\* the pages of a text that has a list of pages
PagesOf(spec) ==
    LET l == LoadsSpec(spec).d[<<"P", "a", "g", "e", "s">>].l IN {l[i] : i \in 1..Len(l)}

\* C19: whenever the session's text does not yield a JSON object with a
\* list of pages (empty text and text without JSON object included), the
\* validation step puts the fallback in its place, and the page handed to
\* the renderer is a page of a valid specification or the fallback's page.
C19_InvalidTextGetsFallback ==
    /\ (ret.op = "validate" /\ ~HasPageList(ret.spec))
           => session.spec = Dumps(FallbackSpec)
    /\ ret.op = "st_html"
           => \/ ret.page = FallbackPage
              \/ HasPageList(ret.spec) /\ ret.page \in PagesOf(ret.spec)

\* text from position i on without the commas that stand, outside of a
\* string, before a closing brace or bracket
RECURSIVE Repaired(_, _, _)
Repaired(text, i, inString) ==
    IF i > Len(text) THEN <<>>
    ELSE IF text[i] = "\"" THEN <<text[i]>> \o Repaired(text, i + 1, ~inString)
    ELSE IF ~inString /\ text[i] = "," /\ SkipWs(text, i + 1) <= Len(text)
            /\ text[SkipWs(text, i + 1)] \in {"}", "]"}
    THEN Repaired(text, i + 1, inString)
    ELSE <<text[i]>> \o Repaired(text, i + 1, inString)

\* C20: for a model output that holds a well-formed JSON object between
\* prose or code fences (prose that may hold braces), extract_json returns
\* that object with its trailing commas removed, and the result parses to
\* the same object.
C20_ExtractsTheObject ==
    (ret.op = "extract_json" /\ ret.body # <<>>)
        => /\ ret.out = Repaired(ret.body, 1, FALSE)
           /\ loads(ret.out) = loads(Repaired(ret.body, 1, FALSE))

\* C21: the KPI path and the chart path compute the same aggregation: for
\* every kind string (in any letter case, or absent) and every projected
\* row set with at least one valid numeric value that falls in one group,
\* the value the KPI card shows for the column is the value aggregate gives
\* for the same rows, as numberFormat writes it.
C21_KpiEqualsChartAggregate ==
    (ret.op = "buildKPIs" /\ ret.k.field = Str(Sales)) =>
        LET rows == applyFilters(RAW.rows, filters)
            out == aggregate(rows, Str(Region), Str(Sales), ret.k.agg)
        IN (ValidRows(rows, Sales) # <<>> /\ Len(out) = 1)
               => ret.out[1].val = numberFormat(out[1].y)

====
